---- MODULE Spec2Model ----
(***************************************************************************)
(* Model of service-discovery/service_discovery.go: the ServiceDiscovery   *)
(* facade over zeroconf (Register, GetServices, GetServiceById), the       *)
(* registry map it keeps, and the TXT-record encoding done in Register.    *)
(*                                                                         *)
(* Strings that are taken apart (configuration keys and values, TXT        *)
(* records) are sequences of one-character strings, so that key+"="+val is *)
(* a real concatenation.  IDs, host names and service types are opaque.    *)
(***************************************************************************)
EXTENDS Integers, Sequences, FiniteSets, TLC

\* ------------------------------------------------------------------ bounds
\* Number of Register calls the callers make.
MaxCalls == 2
\* Number of times the application rewrites a service's configuration.
MaxMutations == 1
\* Number of Register calls made when the encoder is exercised.
EncCalls == 1
\* Longest key of the configurations the encoder is run on.
MaxStrLen == 1
\* Most entries of the configurations the encoder is run on.
MaxEntries == 2

\* ------------------------------------------------------------ Go values
\* The nil *zeroconf.ServiceEntry (the zero value a map lookup yields).
Nil == [nil |-> TRUE]

\* A Go map with no keys (make(map[...]...), or a nil map when only read).
EmptyMap == [k \in {} |-> Nil]

\* m[k] for a Go map of pointers: the stored value, or the zero value nil.
MapIndex(m, k) == IF k \in DOMAIN m THEN m[k] ELSE Nil

\* m[k] = v for a Go map: k is added or its value replaced; other keys stay.
MapAssign(m, k, v) ==
  [x \in (DOMAIN m) \cup {k} |-> IF x = k THEN v ELSE m[x]]

\* The orders in which `range` may visit the finite set S: all of them.
Perms(S) ==
  {f \in [1..Cardinality(S) -> S] : \A i, j \in 1..Cardinality(S) : i # j => f[i] # f[j]}

\* ------------------------------------------------------- the callers' world
\* Execution contexts: one caller (the default), or two concurrent ones.
SeqThreads == {1}
ConcThreads == {1, 2}

\* The application's Service values.  "a" and "b" are different services
\* with the same ID; "c" has another ID.
Services == {"a", "b", "c"}

ServiceAttrs ==
  [a |-> [id |-> "svc1", hostname |-> "host1", port |-> 8080, serviceType |-> "_myService._tcp"],
   b |-> [id |-> "svc1", hostname |-> "host2", port |-> 9090, serviceType |-> "_myService._tcp"],
   c |-> [id |-> "svc2", hostname |-> "host1", port |-> 8080, serviceType |-> "_other._tcp"]]

Hostname(s) == ServiceAttrs[s].hostname
Port(s) == ServiceAttrs[s].port
ServiceType(s) == ServiceAttrs[s].serviceType
ID(s) == ServiceAttrs[s].id

IDs == {ID(s) : s \in Services} \cup {"svc9"}

\* A configuration value (interface{}): its dynamic type, and its entries when
\* the dynamic type is map[string]string.
StrMap(m) == [type |-> "map[string]string", val |-> m]
NonMap(ty) == [type |-> ty, val |-> EmptyMap]
NonMapConfigs == {NonMap("nil"), NonMap("map[string]int")}

\* All maps from at most n keys of K to values of V.
MapsOver(K, V, n) ==
  UNION {[D -> V] : D \in {D \in SUBSET K : Cardinality(D) <= n}}

\* The keys and values of the configurations the registered services hold.
CfgKeys == {<<"v">>, <<"e">>}
CfgVals == {<<"1">>, <<"p">>}

InitialConfig ==
  [a |-> StrMap([k \in CfgKeys |-> IF k = <<"v">> THEN <<"1">> ELSE <<"p">>]),
   b |-> NonMap("map[string]int"),
   c |-> StrMap(EmptyMap)]

\* The values the application may make a service's configuration hold.
Configs ==
  {StrMap(m) : m \in {m \in MapsOver(CfgKeys, CfgVals, 2) :
                        <<"e">> \in DOMAIN m => m = InitialConfig["a"].val}}
  \cup {NonMap("map[string]int")}

\* The configurations the encoder is run on: keys are any strings over
\* {"a", "="} of length at most MaxStrLen, values are "", "a" or "=".
Alphabet == {"a", "="}
Strs == UNION {[1..n -> Alphabet] : n \in 0..MaxStrLen}
EncVals == {<<>>, <<"a">>, <<"=">>}
EncConfigs == {StrMap(m) : m \in MapsOver(Strs, EncVals, MaxEntries)} \cup NonMapConfigs

\* ------------------------------------------------------------------ state
VARIABLES
  sd,          \* the ServiceDiscovery instance: resolver, services, serviceType
  config,      \* config[s]: what s.Config() returns now (the service's own map)
  pc,          \* pc[t]: where context t is
  svc,         \* svc[t]: the argument s of t's Register call
  arg,         \* arg[t]: the argument id of t's GetServiceById call
  txtRecords,  \* txtRecords[t]: Register's local slice
  server,      \* server[t]: Register's local handle (an index into handles), 0 = none
  err,         \* err[t]: whether zeroconf.Register returned an error to t
  ret,         \* ret[t]: what t's last call returned
  handles,     \* the mDNS engine: one record per successful zeroconf.Register
  proc,        \* "running", "exited" (log.Fatalf) or "thrown" (runtime fatal error)
  calls,       \* number of Register calls the callers will still make
  mutations,   \* number of configuration rewrites the application will still make
  seen,        \* seen[t]: the value s.Config() returned to t's Register call
  pre,         \* pre[t]: the registry when t's Register call began
  history      \* the Register calls that have returned, in order

vars == <<sd, config, pc, svc, arg, txtRecords, server, err, ret, handles, proc,
          calls, mutations, seen, pre, history>>

NoRet == [kind |-> "none"]

\* ----------------------------------------------------------- construction
\* NewServiceDiscovery(serviceType), the resolver having been created.
NewServiceDiscovery(serviceType) ==
  [resolver |-> "resolver", services |-> EmptyMap, serviceType |-> serviceType]

InitWith(cfg, nCalls, nMutations) ==
  /\ sd = NewServiceDiscovery("_myService._tcp")
  /\ config = cfg
  /\ pc = [t \in ConcThreads |-> "idle"]
  /\ svc = [t \in ConcThreads |-> "a"]
  /\ arg = [t \in ConcThreads |-> "svc1"]
  /\ txtRecords = [t \in ConcThreads |-> <<>>]
  /\ server = [t \in ConcThreads |-> 0]
  /\ err = [t \in ConcThreads |-> FALSE]
  /\ ret = [t \in ConcThreads |-> NoRet]
  /\ handles = <<>>
  /\ proc = "running"
  /\ calls = nCalls
  /\ mutations = nMutations
  /\ seen = [t \in ConcThreads |-> NonMap("nil")]
  /\ pre = [t \in ConcThreads |-> EmptyMap]
  /\ history = <<>>

Init == InitWith(InitialConfig, MaxCalls, MaxMutations)

\* --------------------------------------------------------------- Register
\* The type assertion s.Config().(map[string]string).
IsStringMap(c) == c.type = "map[string]string"

\* An encoder that forgets the last entry visited.
TxtRecordsOfDropLast(m, order) ==
  [i \in 1..(Len(order) - 1) |-> order[i] \o <<"=">> \o m[order[i]]]

\* The slice built by the loop over configMap when it visits the keys in `order`.
TxtRecordsOf(m, order) ==
  [i \in 1..Len(order) |-> order[i] \o <<"=">> \o m[order[i]]]

\* Every slice lines 53-59 may build from the configuration value c.
EncodeConfig(c) ==
  IF IsStringMap(c)
  THEN {TxtRecordsOf(c.val, order) : order \in Perms(DOMAIN c.val)}
  ELSE {<<>>}

\* A caller calls sd.Register(s).
CallRegister(t, s) ==
  /\ proc = "running"
  /\ pc[t] = "idle"
  /\ calls > 0
  /\ calls' = calls - 1
  /\ pc' = [pc EXCEPT ![t] = "encode"]
  /\ svc' = [svc EXCEPT ![t] = s]
  /\ pre' = [pre EXCEPT ![t] = sd.services]
  /\ ret' = [ret EXCEPT ![t] = NoRet]
  /\ UNCHANGED <<err, sd, config, arg, txtRecords, server, handles, proc, mutations, seen, history>>

\* An Encode whose type assertion is unchecked: a value that is not a
\* map[string]string panics and the process dies.
EncodeUnchecked(t) ==
  /\ proc = "running"
  /\ pc[t] = "encode"
  /\ seen' = [seen EXCEPT ![t] = config[svc[t]]]
  /\ IF IsStringMap(config[svc[t]])
     THEN /\ \E txt \in EncodeConfig(config[svc[t]]) :
               txtRecords' = [txtRecords EXCEPT ![t] = txt]
          /\ pc' = [pc EXCEPT ![t] = "register"]
          /\ proc' = proc
     ELSE /\ proc' = "exited"
          /\ UNCHANGED <<txtRecords, pc>>
  /\ UNCHANGED <<err, sd, config, svc, arg, server, ret, handles, calls, mutations, pre, history>>

\* An Encode that encodes the configuration the service was created with
\* instead of the one s.Config() returns now.
EncodeCached(t) ==
  /\ proc = "running"
  /\ pc[t] = "encode"
  /\ \E txt \in EncodeConfig(InitialConfig[svc[t]]) :
       txtRecords' = [txtRecords EXCEPT ![t] = txt]
  /\ seen' = [seen EXCEPT ![t] = config[svc[t]]]
  /\ pc' = [pc EXCEPT ![t] = "register"]
  /\ UNCHANGED <<err, sd, config, svc, arg, server, ret, handles, proc, calls, mutations, pre, history>>

\* Lines 53-59: build txtRecords from s.Config().
Encode(t) ==
  /\ proc = "running"
  /\ pc[t] = "encode"
  /\ \E txt \in EncodeConfig(config[svc[t]]) :
       txtRecords' = [txtRecords EXCEPT ![t] = txt]
  /\ seen' = [seen EXCEPT ![t] = config[svc[t]]]
  /\ pc' = [pc EXCEPT ![t] = "register"]
  /\ UNCHANGED <<err, sd, config, svc, arg, server, ret, handles, proc, calls, mutations, pre, history>>

\* What the mDNS engine keeps for one successful zeroconf.Register call.
Announcement(instance, service, domain, port, text) ==
  [instance |-> instance, service |-> service, domain |-> domain,
   port |-> port, text |-> text, live |-> TRUE]

\* Line 61, err == nil: the engine announces the service and returns a handle.
ZeroconfRegisterOk(t) ==
  /\ proc = "running"
  /\ pc[t] = "register"
  /\ handles' = Append(handles,
       Announcement(Hostname(svc[t]), ServiceType(svc[t]), "local.", Port(svc[t]), txtRecords[t]))
  /\ server' = [server EXCEPT ![t] = Len(handles) + 1]
  /\ pc' = [pc EXCEPT ![t] = "store"]
  /\ UNCHANGED <<err, sd, config, svc, arg, txtRecords, ret, proc, calls, mutations, seen, pre, history>>

\* The error logged and execution carried on with a nil handle.
ZeroconfRegisterErrLogged(t) ==
  /\ proc = "running"
  /\ pc[t] = "register"
  /\ pc' = [pc EXCEPT ![t] = "store"]
  /\ err' = [err EXCEPT ![t] = TRUE]
  /\ UNCHANGED <<sd, config, svc, arg, txtRecords, server, ret, handles, proc, calls,
                 mutations, seen, pre, history>>

\* Lines 61-64, err != nil: log.Fatalf ends the process (os.Exit(1)).
ZeroconfRegisterErr(t) ==
  /\ proc = "running"
  /\ pc[t] = "register"
  /\ proc' = "exited"
  /\ err' = [err EXCEPT ![t] = TRUE]
  /\ UNCHANGED <<sd, config, pc, svc, arg, txtRecords, server, ret, handles, calls,
                 mutations, seen, pre, history>>

\* A store step that first waits for every other context to leave the registry.
BeginStoreLocked(t) ==
  /\ proc = "running"
  /\ pc[t] = "store"
  /\ \A u \in ConcThreads \ {t} : pc[u] \notin {"storing", "getServices", "getById"}
  /\ pc' = [pc EXCEPT ![t] = "storing"]
  /\ UNCHANGED <<err, sd, config, svc, arg, txtRecords, server, ret, handles, proc, calls,
                 mutations, seen, pre, history>>

\* Line 67: the map assignment begins.  Nothing guards it.
BeginStore(t) ==
  /\ proc = "running"
  /\ pc[t] = "store"
  /\ pc' = [pc EXCEPT ![t] = "storing"]
  /\ UNCHANGED <<err, sd, config, svc, arg, txtRecords, server, ret, handles, proc, calls,
                 mutations, seen, pre, history>>

\* The &zeroconf.ServiceEntry{...} literal of lines 67-71.
ServiceEntry(hostName, port, text) ==
  [HostName |-> hostName, Port |-> port, Text |-> text]

\* The registry after line 67 with the old entry's records kept in front.
StoredMerged(services, s, txt) ==
  MapAssign(services, ID(s),
    ServiceEntry(Hostname(s), Port(s),
      (IF ID(s) \in DOMAIN services THEN services[ID(s)].Text ELSE <<>>) \o txt))

\* The registry after line 67 with the records left out of the entry.
StoredNoText(services, s, txt) ==
  MapAssign(services, ID(s), ServiceEntry(Hostname(s), Port(s), <<>>))

\* The registry after sd.services[s.ID()] = &zeroconf.ServiceEntry{...}.
Stored(services, s, txt) ==
  MapAssign(services, ID(s), ServiceEntry(Hostname(s), Port(s), txt))

\* Lines 67-71: the map assignment completes.
Store(t) ==
  /\ proc = "running"
  /\ pc[t] = "storing"
  /\ sd' = [sd EXCEPT !.services = Stored(sd.services, svc[t], txtRecords[t])]
  /\ pc' = [pc EXCEPT ![t] = "return"]
  /\ UNCHANGED <<err, config, svc, arg, txtRecords, server, ret, handles, proc, calls,
                 mutations, seen, pre, history>>

\* The engine's handles when Register returns without shutting its handle down.
ShutdownSkipped(hs, h) == hs

\* server.Shutdown(): the announcement of handle h is withdrawn.
Shutdown(hs, h) ==
  [i \in 1..Len(hs) |-> IF i = h THEN [hs[i] EXCEPT !.live = FALSE] ELSE hs[i]]

\* The record of a Register call that has returned.
Returned(t) ==
  [svc |-> svc[t], id |-> ID(svc[t]), hostname |-> Hostname(svc[t]), port |-> Port(svc[t]),
   cfg |-> seen[t], handle |-> server[t]]

\* Lines 73-74: the deferred server.Shutdown() runs and Register returns.
ReturnRegister(t) ==
  /\ proc = "running"
  /\ pc[t] = "return"
  /\ handles' = Shutdown(handles, server[t])
  /\ history' = Append(history, Returned(t))
  /\ pc' = [pc EXCEPT ![t] = "idle"]
  /\ txtRecords' = [txtRecords EXCEPT ![t] = <<>>]
  /\ server' = [server EXCEPT ![t] = 0]
  /\ svc' = [svc EXCEPT ![t] = "a"]
  /\ seen' = [seen EXCEPT ![t] = NonMap("nil")]
  /\ pre' = [pre EXCEPT ![t] = EmptyMap]
  /\ UNCHANGED <<err, sd, config, arg, ret, proc, calls, mutations>>

\* ------------------------------------------------------------ the lookups
\* GetServices that stops one short of the end of the map.
GetServicesShort(services) ==
  {[i \in 1..(Len(ids) - 1) |-> ids[i]] : ids \in Perms(DOMAIN services)}

\* Every slice GetServices may return: the keys, in any order.
GetServices(services) == Perms(DOMAIN services)

\* A lookup that hands out an empty entry for an unknown ID.
GetServiceByIdDefault(services, id) ==
  IF id \in DOMAIN services THEN services[id] ELSE ServiceEntry("", 0, <<>>)

\* What GetServiceById(id) returns.
GetServiceById(services, id) == MapIndex(services, id)

\* A caller calls sd.GetServices(); the loop over the map is under way.
CallGetServices(t) ==
  /\ proc = "running"
  /\ pc[t] = "idle"
  /\ pc' = [pc EXCEPT ![t] = "getServices"]
  /\ ret' = [ret EXCEPT ![t] = NoRet]
  /\ UNCHANGED <<err, sd, config, svc, arg, txtRecords, server, handles, proc, calls, mutations,
                 seen, pre, history>>

\* Lines 78-82: GetServices returns.
ReturnGetServices(t) ==
  /\ proc = "running"
  /\ pc[t] = "getServices"
  /\ \E ids \in GetServices(sd.services) :
       ret' = [ret EXCEPT ![t] = [kind |-> "ids", ids |-> ids]]
  /\ pc' = [pc EXCEPT ![t] = "idle"]
  /\ UNCHANGED <<err, sd, config, svc, arg, txtRecords, server, handles, proc, calls,
                 mutations, seen, pre, history>>

\* A caller calls sd.GetServiceById(id); the map read is under way.
CallGetServiceById(t, id) ==
  /\ proc = "running"
  /\ pc[t] = "idle"
  /\ pc' = [pc EXCEPT ![t] = "getById"]
  /\ arg' = [arg EXCEPT ![t] = id]
  /\ ret' = [ret EXCEPT ![t] = NoRet]
  /\ UNCHANGED <<err, sd, config, svc, txtRecords, server, handles, proc, calls, mutations,
                 seen, pre, history>>

\* Line 88: GetServiceById returns.
ReturnGetServiceById(t) ==
  /\ proc = "running"
  /\ pc[t] = "getById"
  /\ ret' = [ret EXCEPT ![t] = [kind |-> "entry", id |-> arg[t],
                                entry |-> GetServiceById(sd.services, arg[t])]]
  /\ pc' = [pc EXCEPT ![t] = "idle"]
  /\ arg' = [arg EXCEPT ![t] = "svc1"]
  /\ UNCHANGED <<err, sd, config, svc, txtRecords, server, handles, proc, calls,
                 mutations, seen, pre, history>>

\* ------------------------------------------------------- the application
\* Between calls the application rewrites a service's configuration map
\* (adds, removes or changes keys) or makes Config() return something else.
MutateConfig(s, c) ==
  /\ proc = "running"
  /\ \A t \in ConcThreads : pc[t] = "idle"
  /\ mutations > 0
  /\ c # config[s]
  /\ config' = [config EXCEPT ![s] = c]
  /\ mutations' = mutations - 1
  /\ UNCHANGED <<err, sd, pc, svc, arg, txtRecords, server, ret, handles, proc, calls,
                 seen, pre, history>>

\* ------------------------------------------------------------ the runtime
\* Two contexts are inside the registry map at once, one of them writing.
Race ==
  \E t, u \in ConcThreads :
    /\ t # u
    /\ pc[t] = "storing"
    /\ pc[u] \in {"storing", "getServices", "getById"}

\* The Go runtime notices the concurrent map access and kills the process
\* ("fatal error: concurrent map writes" / "... map read and map write").
\* Detection is best effort: the accesses may as well run to completion.
RuntimeThrow ==
  /\ proc = "running"
  /\ Race
  /\ proc' = "thrown"
  /\ UNCHANGED <<err, sd, config, pc, svc, arg, txtRecords, server, ret, handles, calls,
                 mutations, seen, pre, history>>

\* --------------------------------------------------------- specifications
\* One caller: the facade as it is meant to be used.
Next ==
  \/ \E t \in SeqThreads, s \in Services : CallRegister(t, s)
  \/ \E t \in SeqThreads : Encode(t)
  \/ \E t \in SeqThreads : ZeroconfRegisterOk(t)
  \/ \E t \in SeqThreads : ZeroconfRegisterErr(t)
  \/ \E t \in SeqThreads : BeginStore(t)
  \/ \E t \in SeqThreads : Store(t)
  \/ \E t \in SeqThreads : ReturnRegister(t)
  \/ \E t \in SeqThreads : CallGetServices(t)
  \/ \E t \in SeqThreads : ReturnGetServices(t)
  \/ \E t \in SeqThreads, id \in IDs : CallGetServiceById(t, id)
  \/ \E t \in SeqThreads : ReturnGetServiceById(t)
  \/ \E s \in Services, c \in Configs : MutateConfig(s, c)

Spec == Init /\ [][Next]_vars

\* Two callers sharing the instance.
NextConc ==
  \/ \E t \in ConcThreads, s \in Services : CallRegister(t, s)
  \/ \E t \in ConcThreads : Encode(t)
  \/ \E t \in ConcThreads : ZeroconfRegisterOk(t)
  \/ \E t \in ConcThreads : ZeroconfRegisterErr(t)
  \/ \E t \in ConcThreads : BeginStore(t)
  \/ \E t \in ConcThreads : Store(t)
  \/ \E t \in ConcThreads : ReturnRegister(t)
  \/ \E t \in ConcThreads : CallGetServices(t)
  \/ \E t \in ConcThreads : ReturnGetServices(t)
  \/ \E t \in ConcThreads, id \in IDs : CallGetServiceById(t, id)
  \/ \E t \in ConcThreads : ReturnGetServiceById(t)
  \/ RuntimeThrow

SpecConc == Init /\ [][NextConc]_vars

\* One caller registering services whose configuration is any bounded value.
InitEnc == \E c \in EncConfigs : InitWith([InitialConfig EXCEPT !["a"] = c], EncCalls, 0)

NextEnc ==
  \/ \E t \in SeqThreads : CallRegister(t, "a")
  \/ \E t \in SeqThreads : Encode(t)
  \/ \E t \in SeqThreads : ZeroconfRegisterOk(t)
  \/ \E t \in SeqThreads : ZeroconfRegisterErr(t)
  \/ \E t \in SeqThreads : BeginStore(t)
  \/ \E t \in SeqThreads : Store(t)
  \/ \E t \in SeqThreads : ReturnRegister(t)

SpecEnc == InitEnc /\ [][NextEnc]_vars

\* ================================================================ claims
\* Context t is inside Register.
InRegister(t) == pc[t] \in {"encode", "register", "store", "storing", "return"}

\* The single caller of Spec and SpecEnc is between calls or in a lookup.
NoRegisterInProgress == \A t \in ConcThreads : ~InRegister(t)

\* The IDs of the Register calls that have returned.
HistIds == {history[i].id : i \in 1..Len(history)}

\* The last Register call that returned for `id` (id \in HistIds).
LastFor(id) ==
  history[CHOOSE i \in 1..Len(history) :
            /\ history[i].id = id
            /\ \A j \in (i + 1)..Len(history) : history[j].id # id]

\* The TXT sequence the mDNS engine was handed in the call recorded as h.
PassedText(h) == handles[h.handle].text

\* Number of positions of sequence q holding x.
Count(q, x) == Cardinality({i \in 1..Len(q) : q[i] = x})

\* The string s holds an "=".
HasEq(s) == \E i \in 1..Len(s) : s[i] = "="

\* <<key, value>> from splitting s on its first "=" (s holds one).
SplitFirst(s) ==
  LET i == CHOOSE i \in 1..Len(s) : s[i] = "=" /\ \A j \in 1..(i - 1) : s[j] # "="
  IN  <<SubSeq(s, 1, i - 1), SubSeq(s, i + 1, Len(s))>>

\* C1: after a successful Register(s), GetServiceById(s.ID()) returns an
\* entry whose hostname is s.Hostname(), whose port is s.Port() and whose TXT
\* records are exactly the encoding of s.Config() that the call handed to the
\* external registration primitive.
C1_RegisterThenLookup ==
  (NoRegisterInProgress /\ history # <<>>) =>
    LET h == history[Len(history)]
        e == GetServiceById(sd.services, h.id)
    IN  /\ e # Nil
        /\ e.HostName = Hostname(h.svc)
        /\ e.Port = Port(h.svc)
        /\ e.Text = PassedText(h)
        /\ e.Text \in EncodeConfig(h.cfg)
        /\ handles[h.handle].port = Port(h.svc)

C1_Witness ==
  /\ NoRegisterInProgress
  /\ history # <<>>
  /\ history[Len(history)].id = "svc1"
  /\ GetServiceById(sd.services, "svc1") # Nil
  /\ GetServiceById(sd.services, "svc1").HostName = "host1"
  /\ GetServiceById(sd.services, "svc1").Port = 8080
  /\ Len(GetServiceById(sd.services, "svc1").Text) = 2
  /\ \E i \in 1..2 : GetServiceById(sd.services, "svc1").Text[i] = <<"v", "=", "1">>
  /\ \E i \in 1..2 : GetServiceById(sd.services, "svc1").Text[i] = <<"e", "=", "p">>

\* C2: registering two different services with the same ID is last-write-wins
\* with no merge: the lookup returns exactly the second service's hostname,
\* port and TXT records, and GetServices lists the ID once.
C2_LastWriteWins ==
  NoRegisterInProgress =>
    \A i, j \in 1..Len(history) :
      (/\ i < j
       /\ history[i].id = history[j].id
       /\ history[i].svc # history[j].svc
       /\ \A k \in (j + 1)..Len(history) : history[k].id # history[j].id)
      => /\ GetServiceById(sd.services, history[j].id) =
              ServiceEntry(Hostname(history[j].svc), Port(history[j].svc), PassedText(history[j]))
         /\ \A ids \in GetServices(sd.services) : Count(ids, history[j].id) = 1

C2_Witness ==
  /\ NoRegisterInProgress
  /\ Len(history) = 2
  /\ history[1].svc = "a"
  /\ history[2].svc = "b"
  /\ Len(PassedText(history[1])) = 2
  /\ GetServiceById(sd.services, "svc1") = ServiceEntry("host2", 9090, <<>>)

\* C3: GetServices returns exactly the distinct IDs registered on this
\* instance so far, each once, in some order; on a fresh instance it returns
\* the empty sequence.
C3_GetServicesExact ==
  NoRegisterInProgress =>
    /\ GetServices(sd.services) # {}
    /\ \A ids \in GetServices(sd.services) :
         /\ Len(ids) = Cardinality(HistIds)
         /\ {ids[i] : i \in 1..Len(ids)} = HistIds
         /\ \A id \in HistIds : Count(ids, id) = 1
    /\ (history = <<>> => GetServices(sd.services) = {<<>>})

C3_Witness ==
  /\ pc[1] = "idle"
  /\ ret[1].kind = "ids"
  /\ Len(ret[1].ids) = 2
  /\ Cardinality(HistIds) = 2

\* C4: GetServiceById(id) is present exactly when a Register with that ID has
\* completed; for an ID never registered it returns nil (no default entry);
\* and an ID once present never becomes absent again.
C4_PresentIffRegistered ==
  /\ [](NoRegisterInProgress =>
          \A id \in IDs :
            /\ id \in HistIds => GetServiceById(sd.services, id) # Nil
            /\ id \notin HistIds => GetServiceById(sd.services, id) = Nil)
  /\ [][\A id \in IDs :
          GetServiceById(sd.services, id) # Nil => GetServiceById(sd.services', id) # Nil]_vars

C4_Witness ==
  /\ pc[1] = "idle"
  /\ ret[1].kind = "entry"
  /\ ret[1].id = "svc9"
  /\ ret[1].entry = Nil
  /\ "svc1" \in HistIds
  /\ GetServiceById(sd.services, "svc1") # Nil

C6_NonMapDegrades ==
  /\ [](\A t \in SeqThreads :
          (InRegister(t) /\ pc[t] # "encode" /\ ~IsStringMap(seen[t])) =>
            /\ txtRecords[t] = <<>>
            /\ pc[t] \in {"store", "storing", "return"} => handles[server[t]].text = <<>>
            /\ pc[t] = "return" =>
                 GetServiceById(sd.services, ID(svc[t])) =
                   ServiceEntry(Hostname(svc[t]), Port(svc[t]), <<>>))
  /\ [][\A t \in SeqThreads :
          (pc[t] = "encode" /\ ~IsStringMap(config[svc[t]])) =>
            /\ proc' = "running"
            /\ pc'[t] = "register"
            /\ txtRecords'[t] = <<>>]_vars

C6_Witness ==
  /\ NoRegisterInProgress
  /\ history # <<>>
  /\ ~IsStringMap(history[Len(history)].cfg)
  /\ PassedText(history[Len(history)]) = <<>>
  /\ GetServiceById(sd.services, "svc1") = ServiceEntry("host2", 9090, <<>>)

\* C7: if the external registration primitive returns an error, the process
\* terminates inside Register: the call never returns, no entry is stored or
\* overwritten, and the registry holds what it held before the call.
C7_RegistrationFailureFatal ==
  \A t \in SeqThreads :
    err[t] =>
      /\ proc = "exited"
      /\ pc[t] = "register"
      /\ sd.services = pre[t]
      /\ server[t] = 0
      /\ ~ENABLED Next

C7_Witness ==
  /\ err[1]
  /\ proc = "exited"
  /\ "svc1" \in DOMAIN sd.services
  /\ svc[1] = "b"
  /\ sd.services["svc1"].HostName = "host1"

\* C8: every successful Register shuts its registration handle down before
\* it returns and after the entry has been stored; so when no Register call
\* is in progress no handle is live, even though the ID is registered.
C8_HandleReleased ==
  /\ [](/\ NoRegisterInProgress => \A h \in 1..Len(handles) : ~handles[h].live
        /\ \A i \in 1..Len(history) :
             ~handles[history[i].handle].live /\ history[i].id \in DOMAIN sd.services)
  /\ [][\A h \in 1..Len(handles) :
          (handles[h].live /\ ~handles'[h].live) =>
            \E t \in SeqThreads :
              /\ server[t] = h
              /\ pc[t] = "return"
              /\ pc'[t] = "idle"
              /\ GetServiceById(sd.services, ID(svc[t])) =
                   ServiceEntry(Hostname(svc[t]), Port(svc[t]), handles[h].text)]_vars

C8_Witness ==
  /\ NoRegisterInProgress
  /\ Len(handles) = 2
  /\ \A h \in 1..Len(handles) : ~handles[h].live
  /\ \E ids \in GetServices(sd.services) : Len(ids) = 2

\* C9: the TXT records of a stored entry are fixed at registration time:
\* rewriting the service's configuration afterwards does not change what
\* GetServiceById returns, until a later Register with the same ID.
C9_CopyOnRegister ==
  /\ [](NoRegisterInProgress =>
          \A id \in HistIds :
            /\ GetServiceById(sd.services, id) # Nil
            /\ GetServiceById(sd.services, id).Text \in EncodeConfig(LastFor(id).cfg))
  /\ [][config' # config => sd' = sd]_vars

C9_Witness ==
  /\ NoRegisterInProgress
  /\ "svc1" \in HistIds
  /\ LastFor("svc1").svc = "a"
  /\ config["a"] # LastFor("svc1").cfg
  /\ Len(GetServiceById(sd.services, "svc1").Text) = 2
  /\ GetServiceById(sd.services, "svc1").Text \notin EncodeConfig(config["a"])

\* C10: nothing guards the registry: a context about to write it is never
\* held back while another context is reading or writing it, and a lookup
\* may begin while a write is under way.
C10_NoGuard ==
  \A t, u \in ConcThreads :
    (t # u /\ proc = "running") =>
      /\ (pc[t] = "store" /\ pc[u] \in {"storing", "getServices", "getById"})
           => ENABLED BeginStore(t)
      /\ (pc[t] = "idle" /\ pc[u] = "storing")
           => ENABLED CallGetServices(t) /\ ENABLED CallGetServiceById(t, "svc1")

C10_Witness ==
  /\ proc = "running"
  /\ pc[1] = "storing"
  /\ pc[2] = "storing"
  /\ Race
====
